---------------------------- MODULE Spec2Model ----------------------------
(***************************************************************************)
(* A model of GoFastCrud's swagger Generator (type-to-schema synthesis,    *)
(* per-entity document assembly, the document registry and its merged      *)
(* views) and of the generic CrudController's request handlers.            *)
(*                                                                         *)
(* Strings whose inner structure the code inspects (struct tags, registry  *)
(* keys, path ids) are sequences of symbols, so that strings.Split,        *)
(* strings.ReplaceAll, uuid.Parse and strconv.ParseUint are computed and   *)
(* not assumed.                                                            *)
(***************************************************************************)
EXTENDS Integers, Sequences, FiniteSets, TLC

VARIABLES
    (* generateSchema, one call unrolled at its top-level field loop *)
    gInput,     \* the reflect.Type passed to generateSchema
    gPc,        \* "enter" | "loop" | "done"
    gType,      \* t after the pointer dereference
    gIdx,       \* the loop variable i (0-based, as in the code)
    gSchema,    \* the schema under construction / returned
    (* Generator *)
    docs,       \* g.docs : key -> *spec.Swagger
    latest,     \* ghost: (routePath, version) -> the last registration made for it
    nRegs,      \* ghost: registrations made so far
    view,       \* the last read of the registry since the last registration: the call
                \* (GetSwagger, GetAllSwagger, mergeSwaggers) and what it returned
    (* CrudController *)
    tid,        \* the instantiation's TID: "uint64" | "uuid"
    db,         \* the repository's persisted rows: id -> row state
    last        \* the last handler call: its inputs' relevant facts and its outcome

schemaVars == <<gInput, gPc, gType, gIdx, gSchema>>
swaggerVars == <<docs, latest, nRegs, view>>
crudVars == <<tid, db, last>>
vars == <<gInput, gPc, gType, gIdx, gSchema,
          docs, latest, nRegs, view,
          tid, db, last>>

-----------------------------------------------------------------------------
(* Generic helpers *)

\* m[k] = v on a Go map
Put(m, k, v) == [x \in (DOMAIN m) \cup {k} |-> IF x = k THEN v ELSE m[x]]

\* for k, v := range src { dst[k] = v }
PutAll(dst, src) ==
    [x \in (DOMAIN dst) \cup (DOMAIN src) |-> IF x \in DOMAIN src THEN src[x] ELSE dst[x]]

EmptyMap == <<>>

Max(S) == CHOOSE x \in S : \A y \in S : y <= x

\* all orders in which the elements of the finite set S can be visited
Orders(S) ==
    {o \in [1..Cardinality(S) -> S] : \A i, j \in 1..Cardinality(S) : i # j => o[i] # o[j]}

RECURSIVE Join(_)
\* the string spelled by a sequence of symbols
Join(toks) == IF toks = <<>> THEN "" ELSE Head(toks) \o Join(Tail(toks))

\* index of the first occurrence of symbol c in s, 0 if none
IndexOf(s, c) ==
    IF \E i \in 1..Len(s) : s[i] = c
    THEN CHOOSE i \in 1..Len(s) : s[i] = c /\ \A j \in 1..(i - 1) : s[j] # c
    ELSE 0

\* index of the last occurrence of symbol c in s, 0 if none
LastIndexOf(s, c) ==
    IF \E i \in 1..Len(s) : s[i] = c
    THEN Max({i \in 1..Len(s) : s[i] = c})
    ELSE 0

-----------------------------------------------------------------------------
(* reflect.Type and reflect.StructField descriptors *)

Prim(k) == [kind |-> k, str |-> k, name |-> k, fields |-> <<>>, elem |-> <<>>]
Struct(pkg, n, fs) ==
    [kind |-> "struct", str |-> pkg \o "." \o n, name |-> n, fields |-> fs, elem |-> <<>>]
Ptr(t) == [kind |-> "ptr", str |-> "*" \o t.str, name |-> "", fields |-> <<>>, elem |-> <<t>>]
Slice(t) == [kind |-> "slice", str |-> "[]" \o t.str, name |-> "", fields |-> <<>>, elem |-> <<t>>]

\* a named field; json is the `json` tag as symbols (<<>> when absent)
Field(n, t, json, binding) ==
    [Name |-> n, Anonymous |-> FALSE, json |-> json, binding |-> binding,
     description |-> "", example |-> "", Type |-> t]
\* an embedded field: its name is its type's name
Embedded(t) ==
    [Name |-> IF t.kind = "ptr" THEN t.elem[1].name ELSE t.name, Anonymous |-> TRUE,
     json |-> <<>>, binding |-> "", description |-> "", example |-> "", Type |-> t]

TimeTime == Struct("time", "Time", <<Field("wall", Prim("uint64"), <<>>, "")>>)

-----------------------------------------------------------------------------
(* generateSchema / getFieldSchema *)

NoProps == EmptyMap

BareSchema ==
    [Type |-> "", Format |-> "", Description |-> "", Example |-> "",
     Properties |-> NoProps, Required |-> <<>>, Items |-> <<>>, Ref |-> <<>>]

ObjectSchema == [BareSchema EXCEPT !.Type = "object"]

\* strings.Split(jsonTag, ",")[0]
SplitFirst(tag) ==
    IF IndexOf(tag, ",") = 0 THEN Join(tag) ELSE Join(SubSeq(tag, 1, IndexOf(tag, ",") - 1))

\* lines 291-294
ResolvedName(field) == IF Join(field.json) # "" THEN SplitFirst(field.json) ELSE field.Name

IntKinds == {"int", "int8", "int16", "int32", "int64"}
UintKinds == {"uint", "uint8", "uint16", "uint32", "uint64"}
FloatKinds == {"float32", "float64"}

RECURSIVE generateSchema(_)
RECURSIVE getFieldSchema(_)
RECURSIVE FoldFields(_, _, _)

\* the body of the field loop for one field (lines 274-303)
StepFieldEmbeddedKeepsFirst(schema, field) ==
    IF field.Anonymous
    THEN [schema EXCEPT !.Properties = PutAll(generateSchema(field.Type).Properties, @)]
    ELSE IF Join(field.json) = "-"
    THEN schema
    ELSE LET name == ResolvedName(field)
             s1 == [schema EXCEPT !.Properties = Put(@, name, getFieldSchema(field))]
         IN  IF field.binding = "required"
             THEN [s1 EXCEPT !.Required = Append(@, name)]
             ELSE s1

StepField(schema, field) ==
    IF field.Anonymous
    THEN [schema EXCEPT !.Properties = PutAll(@, generateSchema(field.Type).Properties)]
    ELSE IF Join(field.json) = "-"
    THEN schema
    ELSE LET name == ResolvedName(field)
             s1 == [schema EXCEPT !.Properties = Put(@, name, getFieldSchema(field))]
         IN  IF field.binding = "required"
             THEN [s1 EXCEPT !.Required = Append(@, name)]
             ELSE s1

\* for i := from; i < t.NumField(); i++ { ... }  (from is 0-based)
FoldFields(schema, fields, from) ==
    IF from >= Len(fields) THEN schema
    ELSE FoldFields(StepField(schema, fields[from + 1]), fields, from + 1)

\* lines 238-241
Deref(t) == IF t.kind = "ptr" THEN t.elem[1] ELSE t

generateSchema(t0) ==
    LET t == Deref(t0) IN
    IF t.kind = "slice"
    THEN [BareSchema EXCEPT !.Type = "array", !.Items = <<generateSchema(t.elem[1])>>]
    ELSE IF t.kind # "struct"
    THEN ObjectSchema
    ELSE FoldFields(ObjectSchema, t.fields, 0)

getFieldSchema(field) ==
    LET t == field.Type
        base == [BareSchema EXCEPT !.Description = field.description,
                                   !.Example = field.example]
    IN  CASE t.kind = "string" -> [base EXCEPT !.Type = "string"]
          [] t.kind \in IntKinds ->
               [base EXCEPT !.Type = "integer",
                            !.Format = IF t.kind = "int64" THEN "int64" ELSE ""]
          [] t.kind \in UintKinds ->
               [base EXCEPT !.Type = "integer",
                            !.Format = IF t.kind = "uint64" THEN "int64" ELSE ""]
          [] t.kind \in FloatKinds ->
               [base EXCEPT !.Type = "number",
                            !.Format = IF t.kind = "float64" THEN "double" ELSE ""]
          [] t.kind = "bool" -> [base EXCEPT !.Type = "boolean"]
          [] t.kind = "struct" ->
               IF t.str = "time.Time"
               THEN [base EXCEPT !.Type = "string", !.Format = "date-time"]
               ELSE generateSchema(t)
          [] t.kind = "ptr" -> generateSchema(t.elem[1])
          [] t.kind = "slice" ->
               [base EXCEPT !.Type = "array", !.Items = <<generateSchema(t.elem[1])>>]
          [] OTHER -> base


-----------------------------------------------------------------------------
(* The struct types generateSchema is applied to *)

MaxFields == 3

\* type Base struct { ID uint64 `json:"id" binding:"required"`; Name int64 `json:"name"` }
Base ==
    Struct("model", "Base",
           <<Field("ID", Prim("uint64"), <<"id">>, "required"),
             Field("Name", Prim("int64"), <<"name">>, "")>>)

\* type Audit struct { Base; By string `json:"by" binding:"required"` }
Audit ==
    Struct("model", "Audit",
           <<Embedded(Base), Field("By", Prim("string"), <<"by">>, "required")>>)

FieldUniverse ==
    { Field("ID", Prim("uint64"), <<"id">>, ""),
      Field("Name", Prim("string"), <<"name">>, "required"),
      Field("Nick", Prim("string"), <<"name", ",", "omitempty">>, "required"),
      Field("Secret", Prim("string"), <<"-">>, "required"),
      Field("Email", Prim("string"), <<>>, "required"),
      Field("CreatedAt", TimeTime, <<"created_at">>, ""),
      Field("Owner", Base, <<"owner">>, ""),
      Field("Tags", Slice(Prim("string")), <<"tags">>, ""),
      Embedded(Base),
      Embedded(Ptr(Audit)),
      Embedded(Prim("int")) }

\* field lists of at most MaxFields fields with pairwise distinct Go names
FieldLists ==
    UNION { { fs \in [1..n -> FieldUniverse] :
                \A i, j \in 1..n : i # j => fs[i].Name # fs[j].Name } : n \in 0..MaxFields }

StructInputs == { Struct("model", "T", fs) : fs \in FieldLists }

SchemaInputs ==
    StructInputs \cup { Ptr(s) : s \in StructInputs } \cup { Slice(s) : s \in StructInputs }
        \cup { Prim("string") }

InitSchema ==
    /\ gInput \in SchemaInputs
    /\ gPc = "enter"
    /\ gType = gInput
    /\ gIdx = 0
    /\ gSchema = BareSchema
    /\ docs = EmptyMap
    /\ latest = EmptyMap
    /\ nRegs = 0
    /\ view = <<>>
    /\ tid = "uint64"
    /\ db = EmptyMap
    /\ last = <<>>

\* lines 237-271: the prologue of generateSchema
GenEnter ==
    /\ gPc = "enter"
    /\ gType' = Deref(gInput)
    /\ gIdx' = 0
    /\ IF Deref(gInput).kind = "struct"
       THEN gSchema' = ObjectSchema /\ gPc' = "loop"
       ELSE gSchema' = generateSchema(gInput) /\ gPc' = "done"
    /\ UNCHANGED <<gInput, swaggerVars, crudVars>>

\* lines 273-304: one iteration of the field loop
GenField ==
    /\ gPc = "loop"
    /\ gIdx < Len(gType.fields)
    /\ gSchema' = StepField(gSchema, gType.fields[gIdx + 1])
    /\ gIdx' = gIdx + 1
    /\ UNCHANGED <<gInput, gPc, gType, swaggerVars, crudVars>>

\* line 306
GenReturn ==
    /\ gPc = "loop"
    /\ gIdx >= Len(gType.fields)
    /\ gPc' = "done"
    /\ UNCHANGED <<gInput, gType, gIdx, gSchema, swaggerVars, crudVars>>

SchemaNext == GenEnter \/ GenField \/ GenReturn

SpecSchema == InitSchema /\ [][SchemaNext]_vars

-----------------------------------------------------------------------------
(* Claims about generateSchema *)

Count(seq, x) == Cardinality({i \in DOMAIN seq : seq[i] = x})

\* the property names written by one field of the loop
Written(f) ==
    IF f.Anonymous THEN DOMAIN generateSchema(f.Type).Properties
    ELSE IF Join(f.json) = "-" THEN {}
    ELSE {ResolvedName(f)}

\* the schema field f stores under name n
ValueOf(f, n) ==
    IF f.Anonymous THEN generateSchema(f.Type).Properties[n] ELSE getFieldSchema(f)

RECURSIVE RequiredNames(_)
\* resolved names of the non-skipped fields marked binding:"required", declared in
\* the struct or reached through its embedded structs
RequiredNames(t0) ==
    LET t == Deref(t0) IN
    IF t.kind # "struct" THEN {}
    ELSE UNION { IF t.fields[i].Anonymous THEN RequiredNames(t.fields[i].Type)
                 ELSE IF t.fields[i].binding = "required" /\ Join(t.fields[i].json) # "-"
                 THEN {ResolvedName(t.fields[i])}
                 ELSE {} : i \in 1..Len(t.fields) }

\* C6 (as claimed): when generateSchema returns for a struct, the resolved name of
\* every required-marked field, declared directly or reached through an embedded
\* struct, occurs exactly once in `required`, and `required` is a subset of the
\* keys of `properties`.
C6_RequiredExactlyOnce ==
    (gPc = "done" /\ gType.kind = "struct") =>
        /\ \A n \in RequiredNames(gType) : Count(gSchema.Required, n) = 1
        /\ \A i \in DOMAIN gSchema.Required : gSchema.Required[i] \in DOMAIN gSchema.Properties

\* C7: when generateSchema returns for a struct, the keys of `properties` are
\* exactly the names written by its fields (every property of an embedded type
\* is a key of the parent; an embedded field's own name is a key only if some
\* field writes that name), and each key holds the value of its last writer in
\* declaration order.
C7_EmbeddedFlattenedLastWriterWins ==
    (gPc = "done" /\ gType.kind = "struct") =>
        LET fs == gType.fields
            props == gSchema.Properties
        IN  /\ DOMAIN props = UNION { Written(fs[i]) : i \in 1..Len(fs) }
            /\ \A i \in 1..Len(fs) :
                 fs[i].Anonymous =>
                   /\ DOMAIN generateSchema(fs[i].Type).Properties \subseteq DOMAIN props
                   /\ (fs[i].Name \in DOMAIN props =>
                         \E j \in 1..Len(fs) : fs[i].Name \in Written(fs[j]))
            /\ \A n \in DOMAIN props :
                 LET k == Max({i \in 1..Len(fs) : n \in Written(fs[i])})
                 IN  props[n] = ValueOf(fs[k], n)

\* C7 witness: a returned schema of a struct in which a named field, then an
\* embedded struct, then another named field all write the same property name.
C7_Witness ==
    /\ gPc = "done"
    /\ gType.kind = "struct"
    /\ \E i, j, k \in 1..Len(gType.fields) :
         /\ i < j /\ j < k
         /\ ~gType.fields[i].Anonymous
         /\ gType.fields[j].Anonymous
         /\ ~gType.fields[k].Anonymous
         /\ \E n \in Written(gType.fields[j]) :
              n \in Written(gType.fields[i]) /\ n \in Written(gType.fields[k])

-----------------------------------------------------------------------------
(* Path identifiers: strings as sequences of characters *)

IdEmpty ==
    <<>>
IdSmall ==
    <<"7">>
IdPadded ==
    <<"0", "0", "7">>
IdTwoDigits ==
    <<"4", "2">>
IdMaxUint64 ==
    <<"1", "8", "4", "4", "6", "7", "4", "4", "0", "7", "3", "7", "0", "9", "5", "5",
      "1", "6", "1", "5">>
IdOverflow ==
    <<"1", "8", "4", "4", "6", "7", "4", "4", "0", "7", "3", "7", "0", "9", "5", "5",
      "1", "6", "1", "6">>
IdDigits32 ==
    <<"0", "0", "0", "0", "0", "0", "0", "0", "0", "0", "0", "0", "0", "0", "0", "0",
      "0", "0", "0", "0", "0", "0", "0", "0", "0", "0", "0", "0", "0", "0", "4", "2">>
IdUuid ==
    <<"1", "2", "3", "e", "4", "5", "6", "7", "-", "e", "8", "9", "b", "-", "1", "2",
      "d", "3", "-", "a", "4", "5", "6", "-", "4", "2", "6", "6", "1", "4", "1", "7",
      "4", "0", "0", "0">>
IdUuidDigits ==
    <<"1", "2", "3", "4", "5", "6", "7", "8", "-", "1", "2", "3", "4", "-", "1", "2",
      "3", "4", "-", "1", "2", "3", "4", "-", "1", "2", "3", "4", "5", "6", "7", "8",
      "9", "0", "1", "2">>
IdUuidBraced ==
    <<"{", "1", "2", "3", "E", "4", "5", "6", "7", "-", "E", "8", "9", "B", "-", "1",
      "2", "D", "3", "-", "A", "4", "5", "6", "-", "4", "2", "6", "6", "1", "4", "1",
      "7", "4", "0", "0", "0", "}">>
IdUuidUrn ==
    <<"u", "r", "n", ":", "u", "u", "i", "d", ":", "1", "2", "3", "e", "4", "5", "6",
      "7", "-", "e", "8", "9", "b", "-", "1", "2", "d", "3", "-", "a", "4", "5", "6",
      "-", "4", "2", "6", "6", "1", "4", "1", "7", "4", "0", "0", "0">>
IdWord ==
    <<"a", "b", "c">>
IdNegative ==
    <<"-", "1">>

PathIds ==
    {IdEmpty, IdSmall, IdPadded, IdTwoDigits, IdMaxUint64, IdOverflow, IdDigits32,
     IdUuid, IdUuidDigits, IdUuidBraced, IdUuidUrn, IdWord, IdNegative}

MaxUint64Digits == IdMaxUint64

-----------------------------------------------------------------------------
(* uuid.Parse and strconv.ParseUint, as the handlers use them *)

DigitVal ==
    [c \in {"0", "1", "2", "3", "4", "5", "6", "7", "8", "9"} |->
        CASE c = "0" -> 0 [] c = "1" -> 1 [] c = "2" -> 2 [] c = "3" -> 3 [] c = "4" -> 4
          [] c = "5" -> 5 [] c = "6" -> 6 [] c = "7" -> 7 [] c = "8" -> 8 [] c = "9" -> 9]

Digits == DOMAIN DigitVal

HexChars == Digits \cup {"a", "b", "c", "d", "e", "f", "A", "B", "C", "D", "E", "F"}

\* ASCII lower-casing of the letters that occur in identifiers
Lower(c) ==
    CASE c = "A" -> "a" [] c = "B" -> "b" [] c = "C" -> "c" [] c = "D" -> "d"
      [] c = "E" -> "e" [] c = "F" -> "f" [] c = "U" -> "u" [] c = "R" -> "r"
      [] c = "N" -> "n" [] c = "I" -> "i" [] OTHER -> c

LowerAll(s) == [i \in 1..Len(s) |-> Lower(s[i])]

ParseFail == [ok |-> FALSE, val |-> <<>>]

\* the 0-based offsets of the 16 hex pairs of xxxxxxxx-xxxx-xxxx-xxxx-xxxxxxxxxxxx
UuidPairOffsets == {0, 2, 4, 6, 9, 11, 14, 16, 19, 21, 24, 26, 28, 30, 32, 34}

\* uuid.Parse on a string of at least 36 characters in the dashed form; the value
\* is the 32 hex digits, lower-cased
UuidParseDashed(s) ==
    IF s[9] # "-" \/ s[14] # "-" \/ s[19] # "-" \/ s[24] # "-"
    THEN ParseFail
    ELSE IF \A x \in UuidPairOffsets : s[x + 1] \in HexChars /\ s[x + 2] \in HexChars
    THEN [ok |-> TRUE,
          val |-> LowerAll(SubSeq(s, 1, 8) \o SubSeq(s, 10, 13) \o SubSeq(s, 15, 18)
                           \o SubSeq(s, 20, 23) \o SubSeq(s, 25, 36))]
    ELSE ParseFail

\* uuid.Parse: the dashed form (36), urn:uuid: + dashed (45), braced (38), or 32
\* hex digits
UuidParse(s) ==
    CASE Len(s) = 36 -> UuidParseDashed(s)
      [] Len(s) = 45 ->
           IF LowerAll(SubSeq(s, 1, 9)) = <<"u", "r", "n", ":", "u", "u", "i", "d", ":">>
           THEN UuidParseDashed(SubSeq(s, 10, 45))
           ELSE ParseFail
      [] Len(s) = 38 -> UuidParseDashed(SubSeq(s, 2, 38))
      [] Len(s) = 32 ->
           IF \A i \in 1..32 : s[i] \in HexChars
           THEN [ok |-> TRUE, val |-> LowerAll(s)]
           ELSE ParseFail
      [] OTHER -> ParseFail

RECURSIVE StripZeros(_)
StripZeros(s) == IF s # <<>> /\ Head(s) = "0" THEN StripZeros(Tail(s)) ELSE s

\* a <= b for digit strings of equal length
DigitsLeq(a, b) ==
    \/ a = b
    \/ \E i \in 1..Len(a) :
         /\ \A j \in 1..(i - 1) : a[j] = b[j]
         /\ DigitVal[a[i]] < DigitVal[b[i]]

\* strconv.ParseUint(s, 10, 64): decimal digits only, value at most 2^64 - 1; the
\* value is the decimal numeral without leading zeros (<<>> is zero)
ParseUint(s) ==
    IF s = <<>> \/ \E i \in 1..Len(s) : s[i] \notin Digits
    THEN ParseFail
    ELSE LET v == StripZeros(s) IN
         IF Len(v) < Len(MaxUint64Digits)
              \/ (Len(v) = Len(MaxUint64Digits) /\ DigitsLeq(v, MaxUint64Digits))
         THEN [ok |-> TRUE, val |-> v]
         ELSE ParseFail

-----------------------------------------------------------------------------
(* CrudController handlers.  An outcome is the error kind returned (or        *)
(* "Success", or "panic" when a type assertion fails), the rows persisted     *)
(* afterwards, and whether the repository was called.                         *)

MaxBatch == 3

Out(kind, d, called) ==
    [kind |-> kind, db |-> d, repoCalled |-> called, repoFailed |-> FALSE, txWrites |-> 0]

Remove(m, k) == [x \in (DOMAIN m) \ {k} |-> m[x]]

\* any(idTID).(TID) on the zero value of TID (lines 44 and 51): the dynamic type
\* of a TID value is TID, so the assertion succeeds for every instantiation
ZeroValueIsTID(t) == TRUE

\* any(v).(TID), single-value form: panics unless v's dynamic type is TID
AssertTID(t, dynamicType) == t = dynamicType

\* Repository.FindById: the row if it is stored, nil otherwise, or an error
FindById(d, idVal, repoErr) ==
    IF repoErr THEN "Repository" ELSE IF idVal \in DOMAIN d THEN "Success" ELSE "NotFound"

\* lines 34-70
GetByIdOutcome(t, d, id, repoErr) ==
    IF id = <<>> THEN Out("NotFound", d, FALSE)
    ELSE IF UuidParse(id).ok
    THEN IF ZeroValueIsTID(t)
         THEN IF AssertTID(t, "uuid")
              THEN Out(FindById(d, UuidParse(id).val, repoErr), d, TRUE)
              ELSE Out("panic", d, FALSE)
         ELSE Out("InvalidParam", d, FALSE)
    ELSE IF ParseUint(id).ok
    THEN IF ZeroValueIsTID(t)
         THEN IF AssertTID(t, "uint64")
              THEN Out(FindById(d, ParseUint(id).val, repoErr), d, TRUE)
              ELSE Out("panic", d, FALSE)
         ELSE Out("InvalidParam", d, FALSE)
    ELSE Out("InvalidParam", d, FALSE)

\* lines 14-31
CreateOutcome(d, bindOk, entity, repoErr) ==
    IF ~bindOk THEN Out("Bind", d, FALSE)
    ELSE IF ~entity.valid THEN Out("Validation", d, FALSE)
    ELSE IF repoErr THEN Out("Repository", d, TRUE)
    ELSE Out("Success", Put(d, entity.id, "created"), TRUE)

\* lines 93-121
UpdateOutcome(t, d, id, bindOk, entity, repoErr) ==
    IF id = <<>> THEN Out("NotFound", d, FALSE)
    ELSE IF ~bindOk THEN Out("Bind", d, FALSE)
    ELSE IF ~entity.valid THEN Out("Validation", d, FALSE)
    ELSE IF ~ParseUint(id).ok THEN Out("NotFound", d, FALSE)
    ELSE IF ~AssertTID(t, "uint64") THEN Out("panic", d, FALSE)
    ELSE IF repoErr THEN Out("Repository", d, TRUE)
    ELSE Out("Success", Put(d, ParseUint(id).val, "updated"), TRUE)

\* lines 124-141
DeleteOutcome(t, d, id, repoErr) ==
    IF id = <<>> THEN Out("NotFound", d, FALSE)
    ELSE IF ~ParseUint(id).ok THEN Out("NotFound", d, FALSE)
    ELSE IF ~AssertTID(t, "uint64") THEN Out("panic", d, FALSE)
    ELSE IF repoErr THEN Out("Repository", d, TRUE)
    ELSE Out("Success", Remove(d, ParseUint(id).val), TRUE)

RECURSIVE ApplyBatch(_, _, _, _)
\* the rows after the first n entities of a batch were written with row state st
ApplyBatch(d, entities, n, st) ==
    IF n = 0 THEN d
    ELSE Put(ApplyBatch(d, entities, n - 1, st), entities[n].id, st)

\* tx.BatchCreate / tx.BatchUpdate inside the transaction: every entity is written,
\* or the call fails at entity failAt (0: no failure) after writing those before it
TxBatchWrite(d, entities, failAt, st) ==
    IF failAt = 0
    THEN [db |-> ApplyBatch(d, entities, Len(entities), st), err |-> FALSE,
          writes |-> Len(entities)]
    ELSE [db |-> ApplyBatch(d, entities, failAt - 1, st), err |-> TRUE,
          writes |-> failAt - 1]

RECURSIVE RemoveAll(_, _, _)
RemoveAll(d, ids, n) == IF n = 0 THEN d ELSE Remove(RemoveAll(d, ids, n - 1), ids[n])

\* tx.BatchDelete inside the transaction
TxBatchDelete(d, ids, failAt) ==
    IF failAt = 0
    THEN [db |-> RemoveAll(d, ids, Len(ids)), err |-> FALSE, writes |-> Len(ids)]
    ELSE [db |-> RemoveAll(d, ids, failAt - 1), err |-> TRUE, writes |-> failAt - 1]

\* Repository.Transaction(fn): commits fn's writes only if fn returned no error
Transaction(d, r) == IF r.err THEN d ELSE r.db

\* the outcome of a handler whose transaction function returned r
TxOut(d, r) ==
    [kind |-> IF r.err THEN "Repository" ELSE "Success", db |-> Transaction(d, r),
     repoCalled |-> TRUE, repoFailed |-> r.err, txWrites |-> r.writes]

\* the same with the batch written through the repository outside a transaction
NoTxOut(d, r) ==
    [kind |-> IF r.err THEN "Repository" ELSE "Success", db |-> r.db,
     repoCalled |-> TRUE, repoFailed |-> r.err, txWrites |-> r.writes]

AnyInvalid(entities) == \E i \in 1..Len(entities) : ~entities[i].valid

\* lines 144-167
BatchCreateOutcomeNoTransaction(d, bindOk, entities, failAt) ==
    IF ~bindOk THEN Out("Bind", d, FALSE)
    ELSE IF AnyInvalid(entities) THEN Out("Validation", d, FALSE)
    ELSE NoTxOut(d, TxBatchWrite(d, entities, failAt, "created"))

BatchCreateOutcome(d, bindOk, entities, failAt) ==
    IF ~bindOk THEN Out("Bind", d, FALSE)
    ELSE IF AnyInvalid(entities) THEN Out("Validation", d, FALSE)
    ELSE TxOut(d, TxBatchWrite(d, entities, failAt, "created"))

\* lines 170-193
BatchUpdateOutcome(d, bindOk, entities, failAt) ==
    IF ~bindOk THEN Out("Bind", d, FALSE)
    ELSE IF AnyInvalid(entities) THEN Out("Validation", d, FALSE)
    ELSE TxOut(d, TxBatchWrite(d, entities, failAt, "updated"))

\* lines 196-216
BatchDeleteOutcome(d, bindOk, ids, failAt) ==
    IF ~bindOk THEN Out("Bind", d, FALSE)
    ELSE IF Len(ids) = 0 THEN Out("InvalidParam", d, FALSE)
    ELSE TxOut(d, TxBatchDelete(d, ids, failAt))

-----------------------------------------------------------------------------
(* The controller's requests *)

\* the ids of the entities a request body can carry, as TID values
EntityIds(t) ==
    IF t = "uint64"
    THEN {ParseUint(IdSmall).val, ParseUint(IdTwoDigits).val}
    ELSE {UuidParse(IdUuid).val, UuidParse(IdUuidDigits).val}

\* a decoded entity: its id, and whether validator.Validate accepts it
Entities(t) == [id : EntityIds(t), valid : BOOLEAN]

Batches(t) == UNION { [1..n -> Entities(t)] : n \in 0..MaxBatch }

IdBatches(t) == UNION { [1..n -> EntityIds(t)] : n \in 0..MaxBatch }

\* what is recorded of a handler call
Call(op, id, bodyOk, anyInvalid, n, d, o) ==
    [op |-> op, id |-> id, bodyOk |-> bodyOk, anyInvalid |-> anyInvalid, n |-> n,
     kind |-> o.kind, repoCalled |-> o.repoCalled, repoFailed |-> o.repoFailed,
     txWrites |-> o.txWrites, changed |-> (o.db # d)]

NoOutcome == Out("none", EmptyMap, FALSE)

InitCrud ==
    /\ gInput = Prim("string")
    /\ gPc = "done"
    /\ gType = Prim("string")
    /\ gIdx = 0
    /\ gSchema = ObjectSchema
    /\ docs = EmptyMap
    /\ latest = EmptyMap
    /\ nRegs = 0
    /\ view = <<>>
    /\ tid \in {"uint64", "uuid"}
    /\ db = EmptyMap
    /\ last = Call("none", <<>>, TRUE, FALSE, 0, EmptyMap, NoOutcome)

Create ==
    \E bindOk \in BOOLEAN, entity \in Entities(tid), repoErr \in BOOLEAN :
        LET o == CreateOutcome(db, bindOk, entity, repoErr) IN
        /\ db' = o.db
        /\ last' = Call("Create", <<>>, bindOk /\ entity.valid, ~entity.valid, 1, db, o)
        /\ UNCHANGED <<tid, schemaVars, swaggerVars>>

GetById ==
    \E id \in PathIds, repoErr \in BOOLEAN :
        LET o == GetByIdOutcome(tid, db, id, repoErr) IN
        /\ db' = o.db
        /\ last' = Call("GetById", id, TRUE, FALSE, 0, db, o)
        /\ UNCHANGED <<tid, schemaVars, swaggerVars>>

Update ==
    \E id \in PathIds, bindOk \in BOOLEAN, entity \in Entities(tid), repoErr \in BOOLEAN :
        LET o == UpdateOutcome(tid, db, id, bindOk, entity, repoErr) IN
        /\ db' = o.db
        /\ last' = Call("Update", id, bindOk /\ entity.valid, ~entity.valid, 1, db, o)
        /\ UNCHANGED <<tid, schemaVars, swaggerVars>>

Delete ==
    \E id \in PathIds, repoErr \in BOOLEAN :
        LET o == DeleteOutcome(tid, db, id, repoErr) IN
        /\ db' = o.db
        /\ last' = Call("Delete", id, TRUE, FALSE, 0, db, o)
        /\ UNCHANGED <<tid, schemaVars, swaggerVars>>

BatchCreate ==
    \E bindOk \in BOOLEAN :
      \E entities \in IF bindOk THEN Batches(tid) ELSE {<<>>} :
        \E failAt \in 0..Len(entities) :
          LET o == BatchCreateOutcome(db, bindOk, entities, failAt) IN
          /\ db' = o.db
          /\ last' = Call("BatchCreate", <<>>, bindOk, AnyInvalid(entities),
                          Len(entities), db, o)
          /\ UNCHANGED <<tid, schemaVars, swaggerVars>>

BatchUpdate ==
    \E bindOk \in BOOLEAN :
      \E entities \in IF bindOk THEN Batches(tid) ELSE {<<>>} :
        \E failAt \in 0..Len(entities) :
          LET o == BatchUpdateOutcome(db, bindOk, entities, failAt) IN
          /\ db' = o.db
          /\ last' = Call("BatchUpdate", <<>>, bindOk, AnyInvalid(entities),
                          Len(entities), db, o)
          /\ UNCHANGED <<tid, schemaVars, swaggerVars>>

BatchDelete ==
    \E bindOk \in BOOLEAN :
      \E ids \in IF bindOk THEN IdBatches(tid) ELSE {<<>>} :
        \E failAt \in 0..Len(ids) :
          LET o == BatchDeleteOutcome(db, bindOk, ids, failAt) IN
          /\ db' = o.db
          /\ last' = Call("BatchDelete", <<>>, bindOk, FALSE, Len(ids), db, o)
          /\ UNCHANGED <<tid, schemaVars, swaggerVars>>

CrudNext ==
    Create \/ GetById \/ Update \/ Delete \/ BatchCreate \/ BatchUpdate \/ BatchDelete

SpecCrud == InitCrud /\ [][CrudNext]_vars

-----------------------------------------------------------------------------
(* Claims about the controller *)

\* xxxxxxxx-xxxx-xxxx-xxxx-xxxxxxxxxxxx with hexadecimal x
UuidShaped(id) ==
    /\ Len(id) = 36
    /\ \A i \in 1..36 : IF i \in {9, 14, 19, 24} THEN id[i] = "-" ELSE id[i] \in HexChars

PurelyNumeric(id) == id # <<>> /\ \A i \in 1..Len(id) : id[i] \in Digits

\* C1 (as claimed): GetById on a controller whose ID type is unsigned integer
\* answers every UUID-shaped path id with InvalidParameter without calling the
\* repository, and on a controller whose ID type is UUID answers every purely
\* numeric path id the same way.
C1_WrongRepresentationRejected ==
    (last.op = "GetById"
       /\ \/ (tid = "uint64" /\ UuidShaped(last.id))
          \/ (tid = "uuid" /\ PurelyNumeric(last.id)))
    => (last.kind = "InvalidParam" /\ ~last.repoCalled)

ErrorKinds == {"NotFound", "InvalidParam", "Validation", "Bind", "Repository"}

\* C2: a BatchCreate or BatchUpdate in which an entity fails validation, or in
\* which the repository's batch call fails inside the transaction, returns an
\* error and leaves the persisted rows as they were before the call.
C2_NoPartialPersistence ==
    (last.op \in {"BatchCreate", "BatchUpdate"} /\ (last.anyInvalid \/ last.repoFailed))
    => (last.kind \in ErrorKinds /\ ~last.changed)

\* C2 witness: a batch of three entities whose transaction function had written
\* some of them, to rows not as they are persisted, when the batch call failed.
C2_Witness ==
    /\ last.op \in {"BatchCreate", "BatchUpdate"}
    /\ last.n = 3
    /\ last.repoFailed
    /\ last.txWrites > 0
    /\ last.kind = "Repository"
    /\ db = EmptyMap

\* neither uuid.Parse nor strconv.ParseUint accepts the id
Unparseable(id) == id # <<>> /\ ~UuidParse(id).ok /\ ~ParseUint(id).ok

\* C5 (as claimed): GetById, Update and Delete, given a well-formed body, answer
\* a missing path id with NotFound and a present but unparseable one with
\* InvalidParameter, in both cases without calling the repository.
C5_UniformIdErrorKinds ==
    (last.op \in {"GetById", "Update", "Delete"} /\ last.bodyOk) =>
        /\ (last.id = <<>> => (last.kind = "NotFound" /\ ~last.repoCalled))
        /\ (Unparseable(last.id) => (last.kind = "InvalidParam" /\ ~last.repoCalled))

-----------------------------------------------------------------------------
(* Generator: operations, per-entity documents, the registry and its merges. *)
(* Route paths, versions, registry keys and document paths are character     *)
(* sequences; a formatted title or reference is the pair of its format and   *)
(* its argument.                                                              *)

Sprintf(format, arg) == <<format, arg>>

\* strings.Contains(s, pat)
Contains(s, pat) ==
    \E i \in 1..(Len(s) - Len(pat) + 1) : SubSeq(s, i, i + Len(pat) - 1) = pat

ColonId == <<":", "i", "d">>
BraceId == <<"{", "i", "d", "}">>

RECURSIVE ReplaceAllId(_)
\* strings.ReplaceAll(s, ":id", "{id}")
ReplaceAllId(s) ==
    IF s = <<>> THEN <<>>
    ELSE IF Len(s) >= Len(ColonId) /\ SubSeq(s, 1, Len(ColonId)) = ColonId
    THEN BraceId \o ReplaceAllId(SubSeq(s, Len(ColonId) + 1, Len(s)))
    ELSE <<Head(s)>> \o ReplaceAllId(Tail(s))

\* a types.APIRoute; Request and Response hold the sample's reflect.Type, or
\* nothing when the sample is nil
Route(method, path, request, response) ==
    [Method |-> method, Path |-> path, Tags |-> <<>>, Summary |-> method,
     Description |-> "", Request |-> request, Response |-> response]

\* lines 380-388
IdParameter ==
    [Name |-> "id", In |-> "path", Description |-> "Entity ID", Required |-> TRUE,
     Type |-> "integer", Schema |-> <<>>]

\* lines 403-411
BodyParameter(schema) ==
    [Name |-> "body", In |-> "body", Description |-> "Request body", Required |-> TRUE,
     Type |-> "", Schema |-> <<schema>>]

\* lines 368-428
generateOperation(route, entityName) ==
    LET idParams == IF Contains(route.Path, ColonId) THEN <<IdParameter>> ELSE <<>>
        bodySchema ==
            IF route.Request # <<>>
            THEN generateSchema(route.Request[1])
            ELSE [BareSchema EXCEPT !.Ref = Sprintf("#/definitions/%s", entityName)]
        bodyParams ==
            IF route.Method \in {"POST", "PUT"} THEN <<BodyParameter(bodySchema)>> ELSE <<>>
        responses ==
            IF route.Response # <<>>
            THEN [code \in {200} |->
                    [Description |-> "Success",
                     Schema |-> generateSchema(route.Response[1])]]
            ELSE EmptyMap
    IN  [Tags |-> route.Tags, Summary |-> route.Summary, Description |-> route.Description,
         Parameters |-> idParams \o bodyParams, Responses |-> responses]

\* line 45-46
DocPath(routePath, route) == ReplaceAllId(<<"/">> \o routePath \o route.Path)

\* lines 43-48: routeGroups, each group's routes in the order of allRoutes
RouteGroups(routePath, allRoutes) ==
    [path \in {DocPath(routePath, allRoutes[i]) : i \in 1..Len(allRoutes)} |->
        SelectSeq(allRoutes, LAMBDA r : DocPath(routePath, r) = path)]

EmptyPathItem == [Get |-> <<>>, Post |-> <<>>, Put |-> <<>>, Delete |-> <<>>]

\* lines 54-64
SetMethod(item, route, entityName) ==
    LET operation == generateOperation(route, entityName) IN
    CASE route.Method = "GET" -> [item EXCEPT !.Get = <<operation>>]
      [] route.Method = "POST" -> [item EXCEPT !.Post = <<operation>>]
      [] route.Method = "PUT" -> [item EXCEPT !.Put = <<operation>>]
      [] route.Method = "DELETE" -> [item EXCEPT !.Delete = <<operation>>]
      [] OTHER -> item

RECURSIVE PathItemOf(_, _, _)
\* lines 52-65: the path item of the first n routes of a group
PathItemOf(routes, n, entityName) ==
    IF n = 0 THEN EmptyPathItem
    ELSE SetMethod(PathItemOf(routes, n - 1, entityName), routes[n], entityName)

\* lines 76-85 and 86-95: one sample type's definition
AddSample(defs, sample, entityName) ==
    IF sample = <<>> THEN defs
    ELSE LET t == Deref(sample[1]) IN
         IF t.name # "" /\ t.name # entityName
         THEN Put(defs, t.name, generateSchema(t))
         ELSE defs

RECURSIVE AddRoutes(_, _, _, _)
\* lines 75-96: the samples of the first n routes of a group
AddRoutes(defs, routes, n, entityName) ==
    IF n = 0 THEN defs
    ELSE LET r == routes[n]
             before == AddRoutes(defs, routes, n - 1, entityName)
         IN  AddSample(AddSample(before, r.Request, entityName), r.Response, entityName)

RECURSIVE AddGroups(_, _, _, _, _)
\* lines 74-97: the groups visited in the order the map iteration yields them
AddGroups(defs, groups, order, n, entityName) ==
    IF n = 0 THEN defs
    ELSE LET before == AddGroups(defs, groups, order, n - 1, entityName)
             routes == groups[order[n]]
         IN  AddRoutes(before, routes, Len(routes), entityName)

\* line 122
DocKey(routePath, version) == routePath \o <<"_">> \o version

\* lines 25-120: the document RegisterEntityWithVersion builds
EntityDocument(entityType, basePath, routePath, allRoutes, version, order) ==
    LET t == Deref(entityType)
        entityName == t.name
        groups == RouteGroups(routePath, allRoutes)
    IN  [Swagger |-> "",
         Title |-> Sprintf("%s API", entityName),
         Description |-> Sprintf("API documentation for %s", entityName),
         Version |-> version,
         Host |-> "",
         BasePath |-> basePath,
         Schemes |-> <<>>, Consumes |-> <<>>, Produces |-> <<>>,
         Paths |-> [path \in DOMAIN groups |->
                      PathItemOf(groups[path], Len(groups[path]), entityName)],
         Definitions |-> AddGroups(Put(EmptyMap, entityName, generateSchema(t)),
                                   groups, order, Len(order), entityName),
         Tags |-> <<[Name |-> entityName,
                     Description |-> Sprintf("Operations about %s", entityName)]>>]

ApiPrefix == <<"/", "a", "p", "i", "/">>

\* lines 144-162
NewVersionDoc(version) ==
    [Swagger |-> "2.0",
     Title |-> Sprintf("Fast CRUD API (%s)", version),
     Description |-> Sprintf("Auto-generated API documentation for version %s", version),
     Version |-> version,
     Host |-> "",
     BasePath |-> ApiPrefix \o version,
     Schemes |-> <<"http">>, Consumes |-> <<"application/json">>,
     Produces |-> <<"application/json">>,
     Paths |-> EmptyMap, Definitions |-> EmptyMap, Tags |-> <<>>]

TagNames(tags) == {tags[i].Name : i \in 1..Len(tags)}

\* lines 178-188: tags not yet in the merged document are appended
AppendNewTags(existing, tags) ==
    existing \o SelectSeq(tags, LAMBDA tag : tag.Name \notin TagNames(existing))

\* lines 166-188: one stored document merged into its version's document
MergeInto(vdoc, swagger) ==
    [vdoc EXCEPT !.Paths = PutAll(@, swagger.Paths),
                 !.Definitions = PutAll(swagger.Definitions, @),
                 !.Tags = AppendNewTags(@, swagger.Tags)]

\* lines 136-140: the last part of strings.Split(path, "_")
VersionOfKey(key) == SubSeq(key, LastIndexOf(key, "_") + 1, Len(key))

RECURSIVE GetAllSwaggerIn(_, _, _)
\* lines 131-192: versionDocs after the first n stored documents, visited in the
\* order the map iteration yields them
GetAllSwaggerIn(d, order, n) ==
    IF n = 0 THEN EmptyMap
    ELSE LET before == GetAllSwaggerIn(d, order, n - 1)
             key == order[n]
             version == VersionOfKey(key)
         IN  IF LastIndexOf(key, "_") = 0 THEN before
             ELSE Put(before, version,
                      MergeInto(IF version \in DOMAIN before THEN before[version]
                                ELSE NewVersionDoc(version),
                                d[key]))

\* lines 196-215
NewMergedDoc ==
    [Swagger |-> "2.0",
     Title |-> "Fast CRUD API",
     Description |-> "Auto-generated API documentation",
     Version |-> "1.0",
     Host |-> "localhost:8080",
     BasePath |-> <<"/", "a", "p", "i", "/", "v", "1">>,
     Schemes |-> <<"http">>, Consumes |-> <<"application/json">>,
     Produces |-> <<"application/json">>,
     Paths |-> EmptyMap, Definitions |-> EmptyMap, Tags |-> <<>>]

RECURSIVE mergeSwaggersIn(_, _, _)
\* lines 195-234
mergeSwaggersIn(d, order, n) ==
    IF n = 0 THEN NewMergedDoc
    ELSE LET before == mergeSwaggersIn(d, order, n - 1)
             swagger == d[order[n]]
         IN  [before EXCEPT !.Paths = PutAll(@, swagger.Paths),
                            !.Definitions = PutAll(@, swagger.Definitions),
                            !.Tags = @ \o swagger.Tags]

-----------------------------------------------------------------------------
(* The registrations made on the Generator *)

MaxRegs == 2

\* type User struct { ID uint64 `json:"id"`; Name string `json:"name" binding:"required"` }
User ==
    Struct("model", "User",
           <<Field("ID", Prim("uint64"), <<"id">>, ""),
             Field("Name", Prim("string"), <<"name">>, "required")>>)

\* type Order struct { Base; Total float64 `json:"total"` }
Order ==
    Struct("model", "Order",
           <<Embedded(Base), Field("Total", Prim("float64"), <<"total">>, "")>>)

\* two request types named Req, declared in different packages
DtoReq == Struct("dto", "Req", <<Field("Name", Prim("string"), <<"name">>, "required")>>)
AdminReq == Struct("admin", "Req", <<Field("Title", Prim("string"), <<"title">>, "")>>)

\* a response type that shares the entity's name User
DtoUser == Struct("dto", "User", <<Field("Nick", Prim("string"), <<"nick">>, "")>>)

EntityTypes == {User, Ptr(Order)}

PathRoot == <<>>
PathWithId == <<"/", ":", "i", "d">>
PathBatch == <<"/", "b", "a", "t", "c", "h">>

\* the standard CRUD surface, no samples
CrudRoutes ==
    <<Route("GET", PathRoot, <<>>, <<>>), Route("GET", PathWithId, <<>>, <<>>),
      Route("POST", PathRoot, <<>>, <<>>), Route("PUT", PathWithId, <<>>, <<>>),
      Route("DELETE", PathWithId, <<>>, <<>>)>>

\* routes with request/response samples
SampleRoutes ==
    <<Route("POST", PathRoot, <<DtoReq>>, <<DtoUser>>),
      Route("PUT", PathWithId, <<Ptr(AdminReq)>>, <<>>)>>

BatchRoutes ==
    <<Route("GET", PathRoot, <<>>, <<Slice(User)>>),
      Route("POST", PathBatch, <<AdminReq>>, <<>>)>>

Controllers == {CrudRoutes, SampleRoutes, BatchRoutes}

RoutePathOrders == <<"o", "r", "d", "e", "r", "s">>
RoutePathA == <<"a">>
RoutePathAB == <<"a", "_", "b">>
RoutePaths == {RoutePathOrders, RoutePathA, RoutePathAB}

VersionV1 == <<"v", "1">>
VersionC == <<"c">>
VersionBC == <<"b", "_", "c">>
Versions == {VersionV1, VersionC, VersionBC}

BasePathApi == <<"/", "a", "p", "i">>

NoView == [op |-> "none", key |-> <<>>, result |-> <<>>]

InitSwagger ==
    /\ gInput = Prim("string")
    /\ gPc = "done"
    /\ gType = Prim("string")
    /\ gIdx = 0
    /\ gSchema = ObjectSchema
    /\ docs = EmptyMap
    /\ latest = EmptyMap
    /\ nRegs = 0
    /\ view = NoView
    /\ tid = "uint64"
    /\ db = EmptyMap
    /\ last = <<>>

\* lines 25-123
RegisterEntityWithVersion ==
    /\ nRegs < MaxRegs
    /\ \E entityType \in EntityTypes, routePath \in RoutePaths,
          allRoutes \in Controllers, version \in Versions :
         \E order \in Orders(DOMAIN RouteGroups(routePath, allRoutes)) :
            LET swagger == EntityDocument(entityType, BasePathApi, routePath,
                                          allRoutes, version, order)
            IN  /\ docs' = Put(docs, DocKey(routePath, version), swagger)
                /\ latest' = Put(latest, <<routePath, version>>,
                                 [entityType |-> entityType, routes |-> allRoutes,
                                  doc |-> swagger])
    /\ nRegs' = nRegs + 1
    /\ view' = NoView
    /\ UNCHANGED <<schemaVars, crudVars>>

\* lines 126-128
GetSwagger ==
    \E rp \in RoutePaths, v \in Versions :
        LET key == DocKey(rp, v) IN
        /\ view' = [op |-> "GetSwagger", key |-> key,
                    result |-> IF key \in DOMAIN docs THEN <<docs[key]>> ELSE <<>>]
        /\ UNCHANGED <<docs, latest, nRegs, schemaVars, crudVars>>

\* lines 131-192
GetAllSwagger ==
    \E order \in Orders(DOMAIN docs) :
        /\ view' = [op |-> "GetAllSwagger", key |-> <<>>,
                    result |-> GetAllSwaggerIn(docs, order, Len(order))]
        /\ UNCHANGED <<docs, latest, nRegs, schemaVars, crudVars>>

\* lines 195-234
mergeSwaggers ==
    \E order \in Orders(DOMAIN docs) :
        /\ view' = [op |-> "mergeSwaggers", key |-> <<>>,
                    result |-> mergeSwaggersIn(docs, order, Len(order))]
        /\ UNCHANGED <<docs, latest, nRegs, schemaVars, crudVars>>

SwaggerNext == RegisterEntityWithVersion \/ GetSwagger \/ GetAllSwagger \/ mergeSwaggers

SpecSwagger == InitSwagger /\ [][SwaggerNext]_vars

-----------------------------------------------------------------------------
(* Claims about the Generator *)

\* the (routePath, version) pairs registered so far with version v
PairsOfVersion(v) == {p \in DOMAIN latest : p[2] = v}

\* no definition name is given two different schemas by the documents of pairs P
NoDefinitionCollision(P) ==
    \A p, q \in P :
        \A n \in (DOMAIN latest[p].doc.Definitions) \cap (DOMAIN latest[q].doc.Definitions) :
            latest[p].doc.Definitions[n] = latest[q].doc.Definitions[n]

\* C3 (as claimed): GetAllSwagger returns one document per registered version v,
\* keyed by v, with basePath "/api/" + v, whose paths are exactly the paths of the
\* documents registered with version v and which contains every definition of
\* those documents when no definition name collides.
C3_MergedByVersion ==
    view.op = "GetAllSwagger" =>
        /\ DOMAIN view.result = {p[2] : p \in DOMAIN latest}
        /\ \A v \in {p[2] : p \in DOMAIN latest} :
             v \in DOMAIN view.result =>
               /\ view.result[v].BasePath = ApiPrefix \o v
               /\ DOMAIN view.result[v].Paths =
                    UNION {DOMAIN latest[p].doc.Paths : p \in PairsOfVersion(v)}
               /\ NoDefinitionCollision(PairsOfVersion(v)) =>
                    \A p \in PairsOfVersion(v) :
                      \A n \in DOMAIN latest[p].doc.Definitions :
                        /\ n \in DOMAIN view.result[v].Definitions
                        /\ view.result[v].Definitions[n] = latest[p].doc.Definitions[n]

\* C4 (as claimed): GetSwagger with the key of a registered (routePath, version)
\* pair returns the document most recently registered for that pair, whatever
\* was registered under other pairs.
C4_KeyIdentifiesDocument ==
    view.op = "GetSwagger" =>
        \A p \in DOMAIN latest :
            DocKey(p[1], p[2]) = view.key => view.result = <<latest[p].doc>>

NoDuplicateTagNames(tags) ==
    \A i, j \in 1..Len(tags) : tags[i].Name = tags[j].Name => i = j

\* C8 (as claimed): in every merged document, of GetAllSwagger and of
\* mergeSwaggers, each tag name occurs at most once.
C8_TagsDeduplicated ==
    /\ view.op = "GetAllSwagger" =>
         \A v \in DOMAIN view.result : NoDuplicateTagNames(view.result[v].Tags)
    /\ view.op = "mergeSwaggers" => NoDuplicateTagNames(view.result.Tags)

\* the sample types of a route list in route order, a route's request before its
\* response, that are named and not named like the entity
NamedSamples(routes, entityName) ==
    LET RECURSIVE Collect(_)
        Collect(n) ==
            IF n = 0 THEN <<>> ELSE Collect(n - 1) \o routes[n].Request \o routes[n].Response
    IN  SelectSeq([i \in 1..Len(Collect(Len(routes))) |-> Deref(Collect(Len(routes))[i])],
                  LAMBDA t : t.name # "" /\ t.name # entityName)

\* C9 (as claimed): in every registered document the entity's own schema is the
\* definition under the entity name, and each other sample type name holds the
\* schema of its first occurrence in route order.
C9_DefinitionsFirstOccurrence ==
    \A p \in DOMAIN latest :
        LET r == latest[p]
            entity == Deref(r.entityType)
            samples == NamedSamples(r.routes, entity.name)
        IN  /\ r.doc.Definitions[entity.name] = generateSchema(entity)
            /\ \A i \in 1..Len(samples) :
                 (\A j \in 1..(i - 1) : samples[j].name # samples[i].name) =>
                   r.doc.Definitions[samples[i].name] = generateSchema(samples[i])

\* two GetAllSwagger results agree on path items, definitions and tag names
SameMerged(a, b) ==
    /\ DOMAIN a = DOMAIN b
    /\ \A v \in DOMAIN a :
         /\ a[v].Paths = b[v].Paths
         /\ a[v].Definitions = b[v].Definitions
         /\ TagNames(a[v].Tags) = TagNames(b[v].Tags)

\* C10 (as claimed): what GetAllSwagger returns does not depend on the order in
\* which the stored documents are visited.
C10_MergeOrderIndependent ==
    view.op = "GetAllSwagger" =>
        \A order \in Orders(DOMAIN docs) :
            SameMerged(view.result, GetAllSwaggerIn(docs, order, Len(order)))
=============================================================================
